---- MODULE Spec2Model ----
(***************************************************************************)
(* A model of three integration points of the extension:                   *)
(*   - WorkspacesWebview (plus/webviews/workspaces/workspacesWebview.ts):  *)
(*     the lazily populated pull-request / issue caches behind getState;   *)
(*   - GenerateCommitMessageCommand, ResetOpenAIKeyCommand and the         *)
(*     SearchGitCommand wizard (commands/git/search.ts);                   *)
(*   - GraphApp (webviews/apps/plus/graph/graph.tsx): message dispatch.    *)
(* Each component has its own specification; the variables of the other    *)
(* components stay at their initial value.                                 *)
(***************************************************************************)
EXTENDS Integers, Sequences, FiniteSets, Bags, TLC

VARIABLES
    \* ---- WorkspacesWebview ----
    openRepositories,   \* container.git.openRepositories: per repository its rich remote (or Null)
    prPool,             \* the pull requests the remote providers may return
    issuePool,          \* the issues the remote providers may return
    pullRequests,       \* this._pullRequests
    issues,             \* this._issues
    calls,              \* the getState() invocations in flight: locals and position
    budget,             \* getState() invocations still to be started in this run
    prQueries,          \* history: container.git.getMyPullRequests(provider) calls made
    firstDone,          \* history: some getState() call has resolved
    overlapEver,        \* history: a getState() call started while another was in flight
    refreshedEver,      \* history: the RefreshWorkspaces command has run
    threwEver,          \* history: a remote call of a population has thrown
    workspacesFocused,  \* the context key ContextKeys.WorkspacesFocused (or undefined)
    focusTimers,        \* the setTimeout callbacks of onFocusChanged not yet run
    focusEvents,        \* history: the focused values delivered to onFocusChanged
    \* ---- GenerateCommitMessageCommand / ResetOpenAIKeyCommand ----
    secret,             \* the secret store's entry 'gitlens.openai.key' (or Null)
    inputBox,           \* scmRepo.inputBox.value
    gen,                \* the run of execute(): locals and position
    genRuns,            \* runs of the command still to be started
    genHist,            \* history of the current run: what it did and what it showed
    \* ---- GraphApp ----
    state,              \* this.state
    theme,              \* the document body's --color-background
    callback,           \* this.callback: the registered subscriber (or Null)
    subscriptions,      \* the subscribers holding an unsubscribe function not yet called
    graphEvents,        \* events still to be delivered before the run ends
    graphHist,          \* history: the last event, the state before it, its renders
    \* ---- SearchGitCommand ----
    wiz,                \* the wizard: its step state, its context and the quick pick
    searchHist          \* history: the searches handed out during the run

wsVars == <<openRepositories, prPool, issuePool, pullRequests, issues, calls, budget,
            prQueries, firstDone, overlapEver, refreshedEver, threwEver>>

genVars == <<secret, inputBox, gen, genRuns, genHist>>

graphVars == <<state, theme, callback, subscriptions, graphEvents, graphHist>>

searchVars == <<wiz, searchHist>>

focusVars == <<workspacesFocused, focusTimers, focusEvents>>

vars == <<wsVars, focusVars, genVars, graphVars, searchVars>>

\* A step of one component leaves the other components alone.
WsOnly == UNCHANGED <<focusVars, genVars, graphVars, searchVars>>
FocusOnly == UNCHANGED <<wsVars, genVars, graphVars, searchVars>>
GenOnly == UNCHANGED <<wsVars, focusVars, graphVars, searchVars>>
GraphOnly == UNCHANGED <<wsVars, focusVars, genVars, searchVars>>
SearchOnly == UNCHANGED <<wsVars, focusVars, genVars, graphVars>>

Null == "null"

\* ---------------------------------------------------------------- bounds
MaxDate == 2        \* dates (getTime() values) range over 1..MaxDate
MaxFetched == 2     \* items returned by the providers during one population of a list
MaxCalls == 2       \* getState() invocations that may be in flight together
MaxStarts == 3      \* getState() invocations per run
MaxText == 2        \* characters of a completion text
MaxOver == 1        \* characters by which a staged diff exceeds the limit
MaxRuns == 2        \* runs of the generate-commit-message command
MaxVersion == 1     \* versions of the commit list and of the log the host sends
MaxEvents == 2      \* messages and theme updates delivered to the graph webview
MaxValue == 2       \* characters typed into the search quick pick
MaxInteractions == 4 \* user interactions with the search wizard in one run
MaxFocusEvents == 5 \* focus changes delivered to the workspaces webview

\* ================================================================
\* WorkspacesWebview
\* ================================================================
Providers == {"p1", "p2"}
Roles == {"author", "assignee", "reviewer", "mentioned"}
ReviewDecisions == {"Approved", "ChangesRequested", "ReviewRequired"}
MergeableStates == {"Mergeable", "Conflicting", "Unknown"}
ReasonChoices == {{}, {"author"}, {"assignee"}, {"reviewer"}, {"mentioned"},
                  {"mentioned", "author"}}

\* SearchedPullRequest: reasons, and the pullRequest fields the webview reads.
SearchedPullRequest ==
    [reasons : ReasonChoices, reviewDecision : ReviewDecisions,
     mergeableState : MergeableStates, date : 1..MaxDate]

\* SearchedIssue: reasons, and the issue field the webview reads.
SearchedIssue == [reasons : {{}, {"mentioned"}}, updatedDate : 1..MaxDate]

SeqsUpTo(S, n) == UNION {[1..k -> S] : k \in 0..n}

\* What a provider query resolves with: null, or a list of at most n items.
Responses(pool, n) ==
    {[isNull |-> TRUE, items |-> <<>>]}
    \cup {[isNull |-> FALSE, items |-> s] : s \in SeqsUpTo(pool, n)}

SelectKeptAll(s) == s

RECURSIVE SelectKept(_)
\* prs.filter(pr => pr.reasons.length > 0)
SelectKept(s) ==
    IF s = <<>> THEN <<>>
    ELSE IF Head(s).reasons # {} THEN <<Head(s)>> \o SelectKept(Tail(s))
         ELSE SelectKept(Tail(s))

getScore(pr) ==
    (IF "author" \in pr.reasons THEN 1000
     ELSE IF "assignee" \in pr.reasons THEN 900
     ELSE IF "reviewer" \in pr.reasons THEN 800
     ELSE IF "mentioned" \in pr.reasons THEN 700
     ELSE 0)
    + (IF pr.reviewDecision = "Approved"
       THEN (IF pr.mergeableState = "Mergeable" THEN 100
             ELSE IF pr.mergeableState = "Conflicting" THEN 90
             ELSE 80)
       ELSE IF pr.reviewDecision = "ChangesRequested" THEN 70
       ELSE 0)

PrCompareNewestFirst(a, b) ==
    IF getScore(a) = getScore(b) THEN b.date - a.date
    ELSE getScore(b) - getScore(a)

\* The comparator handed to allPrs.sort.
PrCompare(a, b) ==
    IF getScore(a) = getScore(b) THEN a.date - b.date
    ELSE getScore(b) - getScore(a)

IssueCompareOldestFirst(a, b) == a.updatedDate - b.updatedDate

\* The comparator handed to allIssues.sort.
IssueCompare(a, b) == b.updatedDate - a.updatedDate

RECURSIVE InsertPr(_, _)
InsertPr(x, s) ==
    IF s = <<>> THEN <<x>>
    ELSE IF PrCompare(Head(s), x) <= 0 THEN <<Head(s)>> \o InsertPr(x, Tail(s))
         ELSE <<x>> \o s

RECURSIVE SortPullRequests(_)
\* Array.prototype.sort with PrCompare: a stable sort.
SortPullRequests(s) ==
    IF s = <<>> THEN <<>>
    ELSE InsertPr(s[Len(s)], SortPullRequests(SubSeq(s, 1, Len(s) - 1)))

RECURSIVE InsertIssue(_, _)
InsertIssue(x, s) ==
    IF s = <<>> THEN <<x>>
    ELSE IF IssueCompare(Head(s), x) <= 0 THEN <<Head(s)>> \o InsertIssue(x, Tail(s))
         ELSE <<x>> \o s

RECURSIVE SortIssues(_)
\* Array.prototype.sort with IssueCompare: a stable sort.
SortIssues(s) ==
    IF s = <<>> THEN <<>>
    ELSE InsertIssue(s[Len(s)], SortIssues(SubSeq(s, 1, Len(s) - 1)))

CallIds == 1..MaxCalls

IdleCall ==
    [pc |-> "idle", repoIdx |-> 0, richRepos |-> <<>>, provIdx |-> 0,
     all |-> <<>>, fetched |-> <<>>, prs |-> <<>>, iss |-> <<>>,
     populatedPr |-> FALSE, populatedIss |-> FALSE, nullFrom |-> {},
     viaRefresh |-> FALSE, laterCall |-> FALSE, raceStart |-> FALSE]

InFlight(c) == calls[c].pc \notin {"idle", "resolved", "rejected"}

\* The for-of loop of the population: the next provider to query, or the sort.
ContinueProviders(call, kind, j) ==
    IF j <= Len(call.richRepos)
    THEN [call EXCEPT !.pc = kind \o "Fetch", !.provIdx = j]
    ELSE [call EXCEPT !.pc = kind \o "Sort", !.provIdx = 0]

\* The for-of loop of getRichRepos: the next repository to ask, or the return.
ContinueRepos(call, kind, i) ==
    IF i <= Len(openRepositories)
    THEN [call EXCEPT !.pc = kind \o "RichRemote", !.repoIdx = i]
    ELSE ContinueProviders([call EXCEPT !.repoIdx = 0], kind, 1)

\* getMyPullRequests up to its first suspension.
EnterMyPullRequests(call) ==
    IF Len(pullRequests) = 0
    THEN ContinueRepos([call EXCEPT !.richRepos = <<>>, !.all = <<>>, !.fetched = <<>>,
                                    !.nullFrom = {}, !.populatedPr = TRUE], "pr", 1)
    ELSE [call EXCEPT !.pc = "getMyIssues", !.prs = pullRequests]

\* getMyIssues up to its first suspension.
EnterMyIssues(call) ==
    IF Len(issues) = 0
    THEN ContinueRepos([call EXCEPT !.richRepos = <<>>, !.all = <<>>, !.fetched = <<>>,
                                    !.nullFrom = {}, !.populatedIss = TRUE], "iss", 1)
    ELSE [call EXCEPT !.pc = "resolved", !.iss = issues]

\* The rest of the continuation of call c, now at c1: the sort and the store of
\* the list when the loops are over, the suspension otherwise.
Settle(c, c1) ==
    /\ CASE c1.pc = "prSort" ->
              LET sorted == SortPullRequests(c1.all) IN
              /\ pullRequests' = sorted
              /\ issues' = issues
              /\ calls' = [calls EXCEPT ![c] =
                    [c1 EXCEPT !.pc = "getMyIssues", !.prs = sorted, !.all = <<>>,
                               !.richRepos = <<>>]]
         [] c1.pc = "issSort" ->
              LET sorted == SortIssues(c1.all) IN
              /\ issues' = sorted
              /\ pullRequests' = pullRequests
              /\ calls' = [calls EXCEPT ![c] =
                    [c1 EXCEPT !.pc = "resolved", !.iss = sorted, !.all = <<>>,
                               !.richRepos = <<>>]]
         [] OTHER ->
              /\ UNCHANGED <<pullRequests, issues>>
              /\ calls' = [calls EXCEPT ![c] = c1]
    /\ prQueries' = IF c1.pc = "prFetch"
                    THEN LET p == c1.richRepos[c1.provIdx].provider IN
                         [prQueries EXCEPT ![p] = @ + 1]
                    ELSE prQueries
    /\ firstDone' = (firstDone \/ c1.pc = "issSort" \/ c1.pc = "resolved")

\* getState(): the call, run to its first suspension.
StartCall(c, refresh) ==
    /\ ~InFlight(c)
    /\ \A d \in CallIds : d < c => InFlight(d)
    /\ budget > 0
    /\ budget' = budget - 1
    /\ overlapEver' = (overlapEver \/ \E d \in CallIds : InFlight(d))
    /\ Settle(c, EnterMyPullRequests(
                    [IdleCall EXCEPT !.viaRefresh = refresh,
                                     !.laterCall = firstDone,
                                     !.raceStart = \E d \in CallIds :
                                         calls[d].pc \in {"prRichRemote", "prFetch"}]))
    /\ UNCHANGED <<openRepositories, prPool, issuePool, threwEver>>

\* includeBootstrap / notifyDidChangeState: a getState() call.
GetState(c) ==
    /\ WsOnly
    /\ StartCall(c, FALSE)
    /\ UNCHANGED refreshedEver

\* The RefreshWorkspaces command: this.refresh(true), which builds the state
\* again through includeBootstrap. No code of the class resets the private
\* caches.
Refresh(c) ==
    /\ WsOnly
    /\ StartCall(c, TRUE)
    /\ refreshedEver' = TRUE

SkipsRepositoryWithoutRemote(richRemote, repos) == richRemote = Null

\* richRemote == null || repos.findIndex(repo => repo.provider === richRemote) > -1
SkipsRepository(richRemote, repos) ==
    \/ richRemote = Null
    \/ \E k \in 1..Len(repos) : repos[k].provider = richRemote

\* repo.getRichRemote(true) resolves.
RichRemoteReturns(c) ==
    /\ WsOnly
    /\ calls[c].pc \in {"prRichRemote", "issRichRemote"}
    /\ LET call == calls[c]
           kind == IF call.pc = "prRichRemote" THEN "pr" ELSE "iss"
           richRemote == openRepositories[call.repoIdx]
           skip == SkipsRepository(richRemote, call.richRepos)
           pushed == IF skip THEN call
                     ELSE [call EXCEPT !.richRepos =
                              Append(@, [repo |-> call.repoIdx, provider |-> richRemote])]
       IN Settle(c, ContinueRepos(pushed, kind, call.repoIdx + 1))
    /\ UNCHANGED <<openRepositories, prPool, issuePool, budget, overlapEver, refreshedEver,
                   threwEver>>

\* A remote call of the population rejects: nothing in getRichRepos,
\* getMyPullRequests, getMyIssues or getState catches it.
RemoteCallThrows(c) ==
    /\ WsOnly
    /\ calls[c].pc \in {"prRichRemote", "issRichRemote", "prFetch", "issFetch"}
    /\ calls' = [calls EXCEPT ![c] =
          [IdleCall EXCEPT !.pc = "rejected", !.viaRefresh = calls[c].viaRefresh,
                           !.populatedPr = calls[c].populatedPr,
                           !.populatedIss = calls[c].populatedIss]]
    /\ threwEver' = TRUE
    /\ UNCHANGED <<openRepositories, prPool, issuePool, pullRequests, issues, budget,
                   prQueries, firstDone, overlapEver, refreshedEver>>

\* container.git.getMyPullRequests(provider) resolves with null or a list.
MyPullRequestsReturn(c) ==
    /\ WsOnly
    /\ calls[c].pc = "prFetch"
    /\ \E prs \in Responses(prPool, MaxFetched - Len(calls[c].fetched)) :
         LET call == calls[c]
             got == IF prs.isNull THEN [call EXCEPT !.nullFrom = @ \cup {call.provIdx}]
                    ELSE [call EXCEPT !.all = @ \o SelectKept(prs.items),
                                      !.fetched = @ \o prs.items]
         IN Settle(c, ContinueProviders(got, "pr", call.provIdx + 1))
    /\ UNCHANGED <<openRepositories, prPool, issuePool, budget, overlapEver, refreshedEver,
                   threwEver>>

\* The continuation of getState after `await this.getMyPullRequests()`.
GetMyIssues(c) ==
    /\ WsOnly
    /\ calls[c].pc = "getMyIssues"
    /\ Settle(c, EnterMyIssues([calls[c] EXCEPT !.fetched = <<>>]))
    /\ UNCHANGED <<openRepositories, prPool, issuePool, budget, overlapEver, refreshedEver,
                   threwEver>>

\* container.git.getMyIssues(provider) resolves with null or a list.
MyIssuesReturn(c) ==
    /\ WsOnly
    /\ calls[c].pc = "issFetch"
    /\ \E iss \in Responses(issuePool, MaxFetched - Len(calls[c].fetched)) :
         LET call == calls[c]
             got == IF iss.isNull THEN [call EXCEPT !.nullFrom = @ \cup {call.provIdx}]
                    ELSE [call EXCEPT !.all = @ \o SelectKept(iss.items),
                                      !.fetched = @ \o iss.items]
         IN Settle(c, ContinueProviders(got, "iss", call.provIdx + 1))
    /\ UNCHANGED <<openRepositories, prPool, issuePool, budget, overlapEver, refreshedEver,
                   threwEver>>

WsNext ==
    \E c \in CallIds :
        \/ GetState(c)
        \/ Refresh(c)
        \/ RichRemoteReturns(c)
        \/ RemoteCallThrows(c)
        \/ MyPullRequestsReturn(c)
        \/ GetMyIssues(c)
        \/ MyIssuesReturn(c)

WsStart ==
    /\ pullRequests = <<>>
    /\ issues = <<>>
    /\ calls = [c \in CallIds |-> IdleCall]
    /\ prQueries = [p \in Providers |-> 0]
    /\ firstDone = FALSE
    /\ overlapEver = FALSE
    /\ refreshedEver = FALSE
    /\ threwEver = FALSE

\* A few pull requests and issues, any repositories, overlapping calls.
WsInit ==
    /\ WsStart
    /\ openRepositories \in {<<"p1">>, <<"p1", "p2">>}
    /\ prPool = {pr \in SearchedPullRequest :
                    /\ pr.reasons = {"author"}
                    /\ pr.reviewDecision = "ReviewRequired"
                    /\ pr.mergeableState = "Unknown"
                    /\ pr.date = 1}
    /\ issuePool = {i \in SearchedIssue : i.reasons # {} /\ i.updatedDate = 1}
    /\ budget = MaxStarts

\* One call, one provider, which holds any one or two pull requests: a list
\* is out of order exactly when two of its elements are.
WsSortInit ==
    /\ WsStart
    /\ openRepositories = <<"p1">>
    /\ prPool \in {{a, b} : a, b \in SearchedPullRequest}
    /\ issuePool = {}
    /\ budget = 1

\* One call, two providers, pull requests and issues with and without a
\* reason and of any date; the open repositories may include one without a
\* rich remote and two that share their rich remote.
WsListsInit ==
    /\ WsStart
    /\ openRepositories \in {<<"p1", "p2">>, <<"p1", Null, "p1", "p2">>}
    /\ prPool = {pr \in SearchedPullRequest :
                    /\ pr.reasons \in {{}, {"mentioned"}}
                    /\ pr.reviewDecision = "ReviewRequired"
                    /\ pr.mergeableState = "Unknown"}
    /\ issuePool = SearchedIssue
    /\ budget = 1

\* ================================================================
\* GenerateCommitMessageCommand and ResetOpenAIKeyCommand
\* ================================================================
DiffLimit == 8000
Keys == {"sk-1", "sk-2"}
Whitespace == {" ", "\n"}
\* Strings are sequences of characters.
CompletionTexts == SeqsUpTo({"m", " "}, MaxText)
BoxValues == {<<>>, <<"u">>}
\* What getDiff resolves with: no diff, or a diff text, kept as its length.
NoDiff == [isNull |-> TRUE, length |-> 0]
Diffs == {NoDiff}
         \cup {[isNull |-> FALSE, length |-> n] :
                   n \in {0} \cup ((DiffLimit - 1)..(DiffLimit + MaxOver))}

RECURSIVE TrimStart(_)
TrimStart(t) ==
    IF t # <<>> /\ Head(t) \in Whitespace THEN TrimStart(Tail(t)) ELSE t

RECURSIVE TrimEnd(_)
TrimEnd(t) ==
    IF t # <<>> /\ t[Len(t)] \in Whitespace THEN TrimEnd(SubSeq(t, 1, Len(t) - 1)) ELSE t

\* String.prototype.trim
Trim(t) == TrimEnd(TrimStart(t))

NeedsPromptAlways(key) == TRUE

\* !openaiApiKey
NeedsPrompt(key) == key = Null

\* !result
PromptDismissed(result) == result = Null

storeSecretDropped(store, key) == store

\* this.container.storage.storeSecret('gitlens.openai.key', key)
storeSecret(store, key) == key

NoStagedDiffNever(diff) == FALSE

\* diff?.diff == null
NoStagedDiff(diff) == diff.isNull

\* diff.diff.substring(0, 8000): the length of the text sent
CodeLength(diffLen) == IF diffLen < DiffLimit THEN diffLen ELSE DiffLimit

TruncatedFromLimit(diffLen) == diffLen >= DiffLimit

\* diff.diff.length > 8000
Truncated(diffLen) == diffLen > DiffLimit

showGenericErrorMessageSilent(errors) == errors

\* showGenericErrorMessage(...): one more error notification on screen
showGenericErrorMessage(errors) == errors + 1

SpliceMessageOverBox(box, message) == message

\* `${scmRepo.inputBox.value ? `${scmRepo.inputBox.value}\n\n` : ''}${message}`
SpliceMessage(box, message) ==
    (IF box # <<>> THEN box \o <<"\n", "\n">> ELSE <<>>) \o message

IdleGen ==
    [pc |-> "idle", openaiApiKey |-> Null, diff |-> NoDiff]

NoHist ==
    [events |-> <<>>, errors |-> 0, warnings |-> 0, infos |-> 0,
     secretAtStart |-> Null, boxExpected |-> <<>>, prompted |-> FALSE,
     resetSinceStart |-> FALSE, posted |-> <<>>, repoFound |-> FALSE,
     scmFound |-> FALSE, rspOk |-> FALSE, boxAtWrite |-> <<>>, message |-> <<>>,
     boxAtPost |-> <<>>, outcome |-> "none", keyOrigin |-> "initial"]

GenRunning == gen.pc \notin {"idle", "done"}

GenDone(outcome) ==
    /\ gen' = [gen EXCEPT !.pc = "done"]
    /\ genHist' = [genHist EXCEPT !.outcome = outcome]

\* The catch block: Logger.error and the generic error message.
GenCaught(outcome) ==
    /\ gen' = [gen EXCEPT !.pc = "done"]
    /\ genHist' = [genHist EXCEPT !.outcome = outcome,
                                  !.errors = showGenericErrorMessage(@)]

\* execute() is called: up to `await getSecret(...)`.
Execute ==
    /\ GenOnly
    /\ ~GenRunning
    /\ genRuns > 0
    /\ genRuns' = genRuns - 1
    /\ gen' = [IdleGen EXCEPT !.pc = "getSecret"]
    /\ genHist' = [NoHist EXCEPT !.secretAtStart = secret, !.boxExpected = inputBox,
                                  !.keyOrigin = genHist.keyOrigin]
    /\ UNCHANGED <<secret, inputBox>>

\* getSecret resolves: the stored key is used, or the prompt is shown.
GetSecretReturns ==
    /\ GenOnly
    /\ gen.pc = "getSecret"
    /\ IF NeedsPrompt(secret)
       THEN /\ gen' = [gen EXCEPT !.pc = "prompt", !.openaiApiKey = secret]
            /\ genHist' = [genHist EXCEPT !.prompted = TRUE]
       ELSE /\ gen' = [gen EXCEPT !.pc = "repository", !.openaiApiKey = secret]
            /\ genHist' = [genHist EXCEPT !.events = Append(@, "key")]
    /\ UNCHANGED <<secret, inputBox, genRuns>>

\* showInputBox resolves: undefined when dismissed, else a key that passed
\* validateInput.
PromptReturns ==
    /\ GenOnly
    /\ gen.pc = "prompt"
    /\ \E result \in {Null} \cup Keys :
         IF PromptDismissed(result)
         THEN /\ GenDone("dismissed")
              /\ UNCHANGED secret
         ELSE /\ gen' = [gen EXCEPT !.pc = "repository", !.openaiApiKey = result]
              /\ secret' = storeSecret(secret, result)
              /\ genHist' = [genHist EXCEPT
                     !.events = @ \o (IF secret' # secret THEN <<"key", "store">>
                                                           ELSE <<"key">>),
                     !.keyOrigin = IF secret' # secret THEN "entered" ELSE @]
    /\ UNCHANGED <<inputBox, genRuns>>

\* getRepository / getBestRepositoryOrShow resolves.
RepositoryReturns ==
    /\ GenOnly
    /\ gen.pc = "repository"
    /\ \E found \in BOOLEAN :
         IF found
         THEN /\ gen' = [gen EXCEPT !.pc = "scmRepository"]
              /\ genHist' = [genHist EXCEPT !.repoFound = TRUE]
         ELSE GenDone("noRepository")
    /\ UNCHANGED <<secret, inputBox, genRuns>>

\* getScmRepository resolves.
ScmRepositoryReturns ==
    /\ GenOnly
    /\ gen.pc = "scmRepository"
    /\ \E found \in BOOLEAN :
         IF found
         THEN /\ gen' = [gen EXCEPT !.pc = "getDiff"]
              /\ genHist' = [genHist EXCEPT !.scmFound = TRUE]
         ELSE GenDone("noScmRepository")
    /\ UNCHANGED <<secret, inputBox, genRuns>>

\* getDiff resolves: without staged changes the run ends with an information
\* message, else the prompt is built and the POST is sent.
GetDiffReturns ==
    /\ GenOnly
    /\ gen.pc = "getDiff"
    /\ \E diff \in Diffs :
         IF NoStagedDiff(diff)
         THEN /\ gen' = [gen EXCEPT !.pc = "done", !.diff = diff]
              /\ genHist' = [genHist EXCEPT !.outcome = "noStagedChanges",
                                            !.events = Append(@, "diff"),
                                            !.infos = @ + 1]
         ELSE /\ gen' = [gen EXCEPT !.pc = "fetch", !.diff = diff]
              /\ genHist' = [genHist EXCEPT
                     !.events = @ \o <<"diff", "post">>,
                     !.posted = <<[key |-> gen.openaiApiKey,
                                   code |-> CodeLength(diff.length)]>>,
                     !.boxAtPost = inputBox]
    /\ UNCHANGED <<secret, inputBox, genRuns>>

\* getDiff rejects.
GetDiffThrows ==
    /\ GenOnly
    /\ gen.pc = "getDiff"
    /\ GenCaught("diffThrew")
    /\ UNCHANGED <<secret, inputBox, genRuns>>

\* The warning shown after withProgress when the diff was cut.
WarnIfTruncated(hist) ==
    IF Truncated(gen.diff.length)
    THEN [hist EXCEPT !.warnings = @ + 1] ELSE hist

\* fetch resolves: a response that is not ok is reported, an ok one is read.
FetchReturns ==
    /\ GenOnly
    /\ gen.pc = "fetch"
    /\ \E ok \in BOOLEAN :
         IF ~ok
         THEN /\ gen' = [gen EXCEPT !.pc = "done"]
              /\ genHist' = WarnIfTruncated(
                     [genHist EXCEPT !.outcome = "notOk",
                                     !.errors = showGenericErrorMessage(@)])
         ELSE /\ gen' = [gen EXCEPT !.pc = "json"]
              /\ genHist' = [genHist EXCEPT !.rspOk = TRUE]
    /\ UNCHANGED <<secret, inputBox, genRuns>>

\* fetch rejects.
FetchThrows ==
    /\ GenOnly
    /\ gen.pc = "fetch"
    /\ GenCaught("fetchThrew")
    /\ UNCHANGED <<secret, inputBox, genRuns>>

\* rsp.json() resolves with a completion that has a first choice: its trimmed
\* text is spliced into the input box.
JsonReturns ==
    /\ GenOnly
    /\ gen.pc = "json"
    /\ \E text \in CompletionTexts :
         LET message == Trim(text) IN
         /\ inputBox' = SpliceMessage(inputBox, message)
         /\ gen' = [gen EXCEPT !.pc = "done"]
         /\ genHist' = WarnIfTruncated(
                [genHist EXCEPT !.outcome = "written",
                                !.events = Append(@, "write"),
                                !.boxAtWrite = inputBox,
                                !.message = text])
    /\ UNCHANGED <<secret, genRuns>>

\* rsp.json() rejects, or the completion has no first choice (a TypeError).
JsonUnusable ==
    /\ GenOnly
    /\ gen.pc = "json"
    /\ GenCaught("bodyUnusable")
    /\ UNCHANGED <<secret, inputBox, genRuns>>

\* The user edits the SCM input box.
UserTypes ==
    /\ GenOnly
    /\ \E v \in BoxValues :
         /\ v # inputBox
         /\ inputBox' = v
         /\ genHist' = [genHist EXCEPT !.boxExpected = v]
    /\ UNCHANGED <<secret, gen, genRuns>>

\* ResetOpenAIKeyCommand.execute: deleteSecret('gitlens.openai.key').
ResetOpenAIKey ==
    /\ GenOnly
    /\ secret # Null
    /\ secret' = Null
    /\ genHist' = [genHist EXCEPT !.resetSinceStart = TRUE, !.keyOrigin = "reset"]
    /\ UNCHANGED <<inputBox, gen, genRuns>>

GenNext ==
    \/ Execute
    \/ GetSecretReturns
    \/ PromptReturns
    \/ RepositoryReturns
    \/ ScmRepositoryReturns
    \/ GetDiffReturns
    \/ GetDiffThrows
    \/ FetchReturns
    \/ FetchThrows
    \/ JsonReturns
    \/ JsonUnusable
    \/ UserTypes
    \/ ResetOpenAIKey

GenStart ==
    /\ gen = IdleGen
    /\ genHist = NoHist

GenInit ==
    /\ GenStart
    /\ secret \in {Null} \cup Keys
    /\ inputBox \in BoxValues
    /\ genRuns = MaxRuns

\* The component at rest, in the specifications of the other components.
GenIdle ==
    /\ GenStart
    /\ secret = Null
    /\ inputBox = <<>>
    /\ genRuns = 0

\* ================================================================
\* GraphApp
\* ================================================================
\* An optional value is <<>> (undefined) or <<v>>.
Undefined == <<>>
Some(v) == <<v>>
Optional(S) == {Undefined} \cup {Some(v) : v \in S}

Themes == {"#000000", "#ffffff"}
DefaultColumnColors ==
    <<"#00bcd4", "#ff9800", "#9c27b0", "#2196f3", "#009688", "#ffeb3b", "#ff5722", "#795548">>
\* GraphConfig: columnColors may be missing.
GraphConfigs == [columnColors : Optional({<<"#ff0000">>})]
Subscribers == {"s1", "s2"}

HostFields == {"commits", "log", "config", "selectedRepository"}
FieldValues(f) ==
    CASE f = "commits" -> Optional(1..MaxVersion)
      [] f = "log" -> Optional(1..MaxVersion)
      [] f = "config" -> Optional(GraphConfigs)
      [] f = "selectedRepository" -> Optional({"repo"})

\* The states the host sends: any of its fields may be present.
HostStates == [f \in HostFields |-> FieldValues(f)]
PartialStates ==
    {[f \in fs |-> full[f]] : full \in [commits : HostStates.commits, log : HostStates.log,
                                        config : HostStates.config,
                                        selectedRepository : HostStates.selectedRepository],
                              fs \in SUBSET HostFields}

Methods == {"DidChange", "DidChangeCommits", "DidChangeGraphConfiguration", "DidDismissPreview"}
Messages ==
    {[method |-> "DidChange", params |-> [state |-> p]] : p \in PartialStates}
    \cup {[method |-> "DidChangeCommits", params |-> [commits |-> c, log |-> l]] :
              c \in Optional(1..MaxVersion), l \in Optional(1..MaxVersion)}
    \cup {[method |-> "DidChangeGraphConfiguration", params |-> [config |-> g]] :
              g \in Optional(GraphConfigs)}
    \cup {[method |-> "DidDismissPreview", params |-> [none |-> Undefined]]}

\* getGraphColors: the CSS variables of every column colour, mixed with the
\* background colour of the theme.
getGraphColors(config, bodyBackground) ==
    LET columnColors ==
            IF config # Undefined /\ config[1].columnColors # Undefined
            THEN config[1].columnColors[1]
            ELSE DefaultColumnColors
        keys == UNION {{<<"--graph-color-", i>>, <<"--column-color", i>>}
                       \cup {<<"--graph-color-bg", i, m>> : m \in {15, 25, 45, 50}}
                       \cup {<<"--graph-color-f", i, m>> : m \in {10, 50}} :
                       i \in 0..(Len(columnColors) - 1)}
    IN [k \in keys |->
           IF Len(k) = 2 THEN <<columnColors[k[2] + 1]>>
           ELSE IF k[1] = "--graph-color-bg"
                THEN <<"mix", bodyBackground, columnColors[k[2] + 1], k[3]>>
                ELSE <<"opacity", columnColors[k[2] + 1], k[3]>>]

\* getGraphColors for every configuration and theme (computed once).
GraphColors ==
    [c \in Optional(GraphConfigs), t \in Themes |-> getGraphColors(c, t)]

\* { ...a, ...b }
Spread(a, b) ==
    [f \in DOMAIN a \cup DOMAIN b |-> IF f \in DOMAIN b THEN b[f] ELSE a[f]]

\* setState: the colours are computed when the new state has none.
setState(st) ==
    IF st.mixedColumnColors = Undefined
    THEN [st EXCEPT !.mixedColumnColors = Some(GraphColors[st.config, theme])]
    ELSE st

OnDidChangeCommitsKeepsLog(st, params) ==
    setState(Spread(st, [commits |-> params.commits]))

\* The handlers of onMessageReceived: the state handed to setState.
OnDidChange(st, params) ==
    setState(Spread(Spread(st, params.state), [mixedColumnColors |-> Undefined]))

OnDidChangeCommits(st, params) ==
    setState(Spread(st, [commits |-> params.commits, log |-> params.log]))

OnDidChangeGraphConfigurationKeepsColors(st, params) ==
    setState(Spread(st, [config |-> params.config]))

OnDidChangeGraphConfiguration(st, params) ==
    setState(Spread(st, [config |-> params.config, mixedColumnColors |-> Undefined]))

Handled(msg) ==
    msg.method \in {"DidChange", "DidChangeCommits", "DidChangeGraphConfiguration"}

RefreshedBeforeSetState(event, before) ==
    [event |-> event, before |-> before,
     renders |-> IF callback # Null THEN <<[subscriber |-> callback, state |-> state]>>
                 ELSE <<>>]

\* refresh(state): the subscriber's callback is invoked when there is one.
Refreshed(event, before) ==
    [event |-> event, before |-> before,
     renders |-> IF callback # Null THEN <<[subscriber |-> callback, state |-> state']>>
                 ELSE <<>>]

\* onMessageReceived(e): the switch on msg.method.
OnMessageReceived ==
    /\ GraphOnly
    /\ graphEvents > 0
    /\ graphEvents' = graphEvents - 1
    /\ \E msg \in Messages :
         /\ state' = CASE msg.method = "DidChange" -> OnDidChange(state, msg.params)
                        [] msg.method = "DidChangeCommits" ->
                               OnDidChangeCommits(state, msg.params)
                        [] msg.method = "DidChangeGraphConfiguration" ->
                               OnDidChangeGraphConfiguration(state, msg.params)
                        [] OTHER -> state
         /\ graphHist' = IF Handled(msg) THEN Refreshed(msg, state)
                         ELSE [event |-> msg, before |-> state, renders |-> <<>>]
    /\ UNCHANGED <<theme, callback, subscriptions>>

\* The theme changes and onThemeUpdated runs.
OnThemeUpdated ==
    /\ GraphOnly
    /\ graphEvents > 0
    /\ graphEvents' = graphEvents - 1
    /\ \E t \in Themes \ {theme} :
         /\ theme' = t
         /\ state' = [state EXCEPT !.mixedColumnColors =
                          Some(GraphColors[state.config, t])]
    /\ graphHist' = Refreshed([method |-> "ThemeUpdated", params |-> [none |-> Undefined]],
                              state)
    /\ UNCHANGED <<callback, subscriptions>>

\* registerEvents(callback), called through the subscriber property handed
\* to the GraphWrapper component; the caller keeps the returned function.
RegisterEvents ==
    /\ GraphOnly
    /\ graphEvents > 0
    /\ \E s \in Subscribers \ subscriptions :
         /\ callback' = s
         /\ subscriptions' = subscriptions \cup {s}
    /\ UNCHANGED <<state, theme, graphEvents, graphHist>>

\* A subscriber calls the function registerEvents returned to it.
Unsubscribe ==
    /\ GraphOnly
    /\ graphEvents > 0
    /\ \E s \in subscriptions :
         /\ callback' = Null
         /\ subscriptions' = subscriptions \ {s}
    /\ UNCHANGED <<state, theme, graphEvents, graphHist>>

GraphNext ==
    \/ OnMessageReceived
    \/ OnThemeUpdated
    \/ RegisterEvents
    \/ Unsubscribe

NoEvent == [event |-> [method |-> "none", params |-> [none |-> Undefined]],
            before |-> [none |-> Undefined], renders |-> <<>>]

\* new GraphApp(): the state the host bootstrapped (before or after a
\* repository was loaded), which carries no mixedColumnColors; no subscriber yet.
GraphStart ==
    /\ callback = Null
    /\ subscriptions = {}
    /\ graphHist = NoEvent

GraphInit ==
    /\ GraphStart
    /\ theme = "#000000"
    /\ \E p \in PartialStates :
         /\ DOMAIN p = HostFields
         /\ \A f, g \in HostFields : (p[f] = Undefined) = (p[g] = Undefined)
         /\ state = Spread(p, [mixedColumnColors |-> Undefined])
    /\ graphEvents = MaxEvents

GraphIdle ==
    /\ GraphStart
    /\ theme = "#000000"
    /\ state = [f \in HostFields \cup {"mixedColumnColors"} |-> Undefined]
    /\ graphEvents = 0

\* ================================================================
\* SearchGitCommand
\* ================================================================
Repositories == {"r1", "r2"}
Commits == {"c1"}
\* The quick pick's value is a sequence of characters; an operator picked
\* from the list is one element of it.
TypedValues == SeqsUpTo({" ", "a"}, MaxValue)
searchOperators ==
    {"=:", "message:", "@:", "author:", "#:", "commit:", "?:", "file:", "~:", "change:"}
\* searchOperators.has(value): '' is a search operator too.
IsSearchOperator(value) ==
    value = <<>> \/ (Len(value) = 1 /\ value[1] \in searchOperators)
\* The items of the operator list.
OperatorItems(hasVirtualFolders) ==
    {"message:", "author:", "commit:"}
    \cup (IF hasVirtualFolders THEN {} ELSE {"file:", "change:"})

SearchConfigurations ==
    {[matchAll |-> FALSE, matchCase |-> FALSE, matchRegex |-> TRUE,
      showResultsInSideBar |-> Undefined],
     [matchAll |-> TRUE, matchCase |-> FALSE, matchRegex |-> TRUE,
      showResultsInSideBar |-> Some(TRUE)]}

\* args.state of the command: every field is optional.
SearchArgs ==
    [repo : Optional({"r1"}), pattern : Optional({<<"a">>, <<"a", " ">>}),
     prefillOnly : BOOLEAN,
     matchCase : Optional({TRUE}), showResultsInSideBar : Optional({FALSE}),
     openPickInView : BOOLEAN]

OrElse(v, d) == IF v = Undefined THEN d ELSE v[1]

\* QuickCommand.canStepsContinue
canStepsContinue(w) == w.counter >= w.startingStep
\* QuickCommand.canPickStepContinue: the counter after a pick and after Back.
StepContinued(counter) == counter + 1
StepWentBack(counter) == counter - 1
\* QuickCommand.endSteps
endSteps(w) == [w EXCEPT !.counter = -1]
\* SearchPattern.toKey
toKey(search) == search

\* The search object built from the wizard's state.
SearchOf(w) ==
    [pattern |-> w.pattern[1], matchAll |-> w.matchAll, matchCase |-> w.matchCase,
     matchRegex |-> w.matchRegex]

PickedPatternAsTyped(item) == item

\* The result of pickSearchOperatorStep: selection[0].item.trim()
PickedPattern(item) == Trim(item)

IdleWizard ==
    [pc |-> "idle", counter |-> 0, startingStep |-> 0, repo |-> Undefined,
     pattern |-> Undefined, matchAll |-> FALSE, matchCase |-> FALSE, matchRegex |-> FALSE,
     showResultsInSideBar |-> FALSE, openPickInView |-> FALSE, skippedStepOne |-> FALSE,
     repos |-> <<>>, hasVirtualFolders |-> FALSE, commit |-> Undefined,
     search |-> Undefined, resultsKey |-> Undefined, resultsPromise |-> Undefined,
     value |-> <<>>, items |-> Undefined, interactions |-> 0]

NoSearches ==
    [calls |-> 0, lastCall |-> Undefined, sideBar |-> 0, lastSideBar |-> Undefined,
     entered |-> Undefined, argsPattern |-> Undefined, toggled |-> FALSE,
     shown |-> <<>>]

\* The step the loop shows once the repository is resolved: the operator
\* step when the pattern is missing or the counter is below 2.
AfterRepository(w) ==
    IF w.counter < 2 \/ w.pattern = Undefined
    THEN [w EXCEPT !.pc = "operatorStep", !.value = OrElse(w.pattern, <<>>),
                   !.items = Undefined]
    ELSE [w EXCEPT !.pc = "search"]

Shown(step) == [searchHist EXCEPT !.shown = <<step>>]

\* The constructor and the start of steps().
ExecuteSearch ==
    /\ SearchOnly
    /\ wiz.pc = "idle"
    /\ wiz.interactions > 0
    /\ \E args \in SearchArgs, cfg \in SearchConfigurations,
          repos \in {<<"r1">>, <<"r1", "r2">>}, virtual \in BOOLEAN, limitBack \in BOOLEAN :
         LET counter == (IF args.repo # Undefined THEN 1 ELSE 0)
                        + (IF args.pattern # Undefined /\ ~args.prefillOnly THEN 1 ELSE 0)
         IN /\ wiz' = [IdleWizard EXCEPT
                          !.pc = "loop",
                          !.counter = counter,
                          !.startingStep = IF limitBack THEN counter ELSE 0,
                          !.repo = args.repo,
                          !.pattern = args.pattern,
                          !.matchAll = cfg.matchAll,
                          !.matchCase = OrElse(args.matchCase, cfg.matchCase),
                          !.matchRegex = cfg.matchRegex,
                          !.showResultsInSideBar =
                              OrElse(args.showResultsInSideBar,
                                     OrElse(cfg.showResultsInSideBar, FALSE)),
                          !.openPickInView = args.openPickInView,
                          !.repos = repos,
                          !.hasVirtualFolders = virtual,
                          !.interactions = wiz.interactions]
            /\ searchHist' = [NoSearches EXCEPT !.argsPattern = args.pattern]

\* The head of the step loop: the loop test and the repository step.
LoopHead ==
    /\ SearchOnly
    /\ wiz.pc = "loop"
    /\ IF ~canStepsContinue(wiz)
       THEN /\ wiz' = [wiz EXCEPT !.pc = "returned"]
            /\ UNCHANGED searchHist
       ELSE IF wiz.counter < 1 \/ wiz.repo = Undefined
            THEN IF Len(wiz.repos) = 1
                 THEN LET w == [wiz EXCEPT
                                  !.skippedStepOne = TRUE,
                                  !.counter = IF wiz.repo = Undefined THEN @ + 1 ELSE @,
                                  !.repo = Some(wiz.repos[1])]
                      IN /\ wiz' = AfterRepository(w)
                         /\ searchHist' =
                                IF AfterRepository(w).pc = "operatorStep"
                                THEN Shown("operator") ELSE searchHist
                 ELSE /\ wiz' = [wiz EXCEPT !.skippedStepOne = FALSE, !.pc = "repoStep"]
                      /\ searchHist' = Shown("repository")
            ELSE /\ wiz' = AfterRepository(wiz)
                 /\ searchHist' = IF AfterRepository(wiz).pc = "operatorStep"
                                  THEN Shown("operator") ELSE searchHist

UserActs(w) == [w EXCEPT !.interactions = @ - 1]

\* pickRepositoryStep: the user picks a repository.
PickRepository ==
    /\ SearchOnly
    /\ wiz.pc = "repoStep"
    /\ wiz.interactions > 0
    /\ \E i \in 1..Len(wiz.repos) :
         LET w == [UserActs(wiz) EXCEPT !.counter = StepContinued(@),
                                        !.repo = Some(wiz.repos[i])]
         IN /\ wiz' = AfterRepository(w)
            /\ searchHist' = IF AfterRepository(w).pc = "operatorStep"
                             THEN Shown("operator") ELSE searchHist

\* pickRepositoryStep: the user goes back; the loop breaks.
RepositoryBack ==
    /\ SearchOnly
    /\ wiz.pc = "repoStep"
    /\ wiz.interactions > 0
    /\ wiz' = [UserActs(wiz) EXCEPT !.counter = StepWentBack(@), !.pc = "returned"]
    /\ UNCHANGED searchHist

\* onDidChangeValue, applied to the wizard with the new quick pick value.
ValueChanged(w, v) ==
    [w EXCEPT !.value = v,
              !.counter = IF Trim(v) # <<>> THEN 3 ELSE 2,
              !.items = IF Len(v) = 0 THEN Undefined ELSE Some(v)]

\* The user types in the quick pick.
OnDidChangeValue ==
    /\ SearchOnly
    /\ wiz.pc = "operatorStep"
    /\ wiz.interactions > 0
    /\ \E v \in TypedValues \ {wiz.value} : wiz' = ValueChanged(UserActs(wiz), v)
    /\ UNCHANGED searchHist

\* The user clicks one of the three toggle buttons.
OnDidClickButton ==
    /\ SearchOnly
    /\ wiz.pc = "operatorStep"
    /\ wiz.interactions > 0
    /\ \E button \in {"matchCase", "matchAll", "matchRegex"} :
         wiz' = [UserActs(wiz) EXCEPT ![button] = ~@]
    /\ searchHist' = [searchHist EXCEPT !.toggled = TRUE]

\* The item the user accepts is a search operator: onDidAccept rewrites the
\* value and keeps the quick pick open.
AcceptOperator ==
    /\ SearchOnly
    /\ wiz.pc = "operatorStep"
    /\ wiz.interactions > 0
    /\ \E item \in (IF wiz.items = Undefined THEN OperatorItems(wiz.hasVirtualFolders)
                     ELSE IF IsSearchOperator(wiz.items[1]) THEN {wiz.items[1][1]}
                     ELSE {}) :
         LET value == Trim(wiz.value)
             rewritten == IF Len(value) = 0 \/ IsSearchOperator(value)
                          THEN <<item>> ELSE value \o <<" ", item>>
         IN /\ Len(rewritten) <= MaxValue
            /\ wiz' = ValueChanged(UserActs(wiz), rewritten)
    /\ UNCHANGED searchHist

\* The user accepts the "Search for" item: the step returns its item, trimmed.
AcceptSearchFor ==
    /\ SearchOnly
    /\ wiz.pc = "operatorStep"
    /\ wiz.interactions > 0
    /\ wiz.items # Undefined
    /\ ~IsSearchOperator(wiz.items[1])
    /\ wiz' = [UserActs(wiz) EXCEPT
                  !.counter = StepContinued(@) - 1,
                  !.pattern = Some(PickedPattern(wiz.items[1])),
                  !.pc = "search"]
    /\ searchHist' = [searchHist EXCEPT !.entered = wiz.items]

OperatorBackToSkippedStep ==
    /\ SearchOnly
    /\ wiz.pc = "operatorStep"
    /\ wiz.interactions > 0
    /\ wiz' = [UserActs(wiz) EXCEPT
                  !.counter = StepWentBack(@) - 1,
                  !.pattern = Undefined,
                  !.pc = "loop"]
    /\ searchHist' = [searchHist EXCEPT !.entered = Undefined, !.argsPattern = Undefined]

\* The user goes back from the operator step.
OperatorBack ==
    /\ SearchOnly
    /\ wiz.pc = "operatorStep"
    /\ wiz.interactions > 0
    /\ wiz' = [UserActs(wiz) EXCEPT
                  !.counter = StepWentBack(@) - 1 - (IF wiz.skippedStepOne THEN 1 ELSE 0),
                  !.pattern = Undefined,
                  !.pc = "loop"]
    /\ searchHist' = [searchHist EXCEPT !.entered = Undefined, !.argsPattern = Undefined]

SideBarRequestedNever(w) == FALSE

\* if (state.showResultsInSideBar)
SideBarRequested(w) == w.showResultsInSideBar

\* The search is built and run (or taken from the cache) and, when asked
\* for, shown in the side bar; otherwise the loop goes on to the commit step.
RunSearch ==
    /\ SearchOnly
    /\ wiz.pc = "search"
    /\ LET search == SearchOf(wiz)
           cached == wiz.resultsPromise # Undefined /\ wiz.resultsKey = Some(toKey(search))
           promise == IF cached THEN wiz.resultsPromise
                      ELSE Some([repo |-> wiz.repo[1], search |-> search, more |-> FALSE])
           called == IF cached THEN searchHist
                     ELSE [searchHist EXCEPT
                             !.calls = @ + 1,
                             !.lastCall =
                                 Some([repo |-> wiz.repo[1], search |-> search,
                                       entered |-> searchHist.entered,
                                       argsPattern |-> searchHist.argsPattern,
                                       flags |-> <<wiz.matchAll, wiz.matchCase,
                                                   wiz.matchRegex>>])]
           w == [wiz EXCEPT !.search = Some(search), !.resultsPromise = promise,
                            !.resultsKey = Some(toKey(search))]
       IN IF SideBarRequested(wiz)
          THEN /\ wiz' = [w EXCEPT !.pc = "returned"]
               /\ searchHist' =
                      [called EXCEPT
                         !.sideBar = @ + 1,
                         !.lastSideBar =
                             Some([repo |-> wiz.repo[1], search |-> search,
                                   results |-> promise[1],
                                   entered |-> searchHist.entered,
                                   argsPattern |-> searchHist.argsPattern,
                                   flags |-> <<wiz.matchAll, wiz.matchCase,
                                               wiz.matchRegex>>])]
          ELSE IF wiz.counter < 3 \/ wiz.commit = Undefined
               THEN /\ wiz' = [w EXCEPT !.pc = "commitStep"]
                    /\ searchHist' = [called EXCEPT !.shown = <<"commit">>]
               ELSE /\ wiz' = [w EXCEPT !.pc = "show"]
                    /\ searchHist' = called

\* pickCommitStep: the user picks a commit.
PickCommit ==
    /\ SearchOnly
    /\ wiz.pc = "commitStep"
    /\ wiz.interactions > 0
    /\ \E c \in Commits :
         wiz' = [UserActs(wiz) EXCEPT !.counter = StepContinued(@), !.commit = Some(c),
                                      !.pc = "show"]
    /\ UNCHANGED searchHist

\* pickCommitStep: the user goes back.
CommitBack ==
    /\ SearchOnly
    /\ wiz.pc = "commitStep"
    /\ wiz.interactions > 0
    /\ wiz' = [UserActs(wiz) EXCEPT !.counter = StepWentBack(@) - 1, !.pc = "loop"]
    /\ UNCHANGED searchHist

\* pickCommitStep: the show-in-side-bar command or button.
ShowInSideBar ==
    /\ SearchOnly
    /\ wiz.pc = "commitStep"
    /\ wiz.interactions > 0
    /\ wiz' = UserActs(wiz)
    /\ searchHist' =
           [searchHist EXCEPT
              !.sideBar = @ + 1,
              !.lastSideBar =
                  Some([repo |-> wiz.repo[1], search |-> wiz.search[1],
                        results |-> wiz.resultsPromise[1],
                        entered |-> searchHist.entered,
                        argsPattern |-> searchHist.argsPattern,
                        flags |-> <<wiz.matchAll, wiz.matchCase, wiz.matchRegex>>])]

\* pickCommitStep: more results were loaded (onDidLoadMore).
LoadMore ==
    /\ SearchOnly
    /\ wiz.pc = "commitStep"
    /\ wiz.interactions > 0
    /\ ~wiz.resultsPromise[1].more
    /\ wiz' = [UserActs(wiz) EXCEPT !.resultsPromise = Some([@[1] EXCEPT !.more = TRUE])]
    /\ UNCHANGED searchHist

\* openPickInView: the commit is shown in the details view and the steps end.
ShowDetailsView ==
    /\ SearchOnly
    /\ wiz.pc = "show"
    /\ wiz.openPickInView
    /\ wiz' = [endSteps(wiz) EXCEPT !.pc = "loop"]
    /\ UNCHANGED searchHist

\* The steps of the show command return (with Break or without).
ShowStepsReturn ==
    /\ SearchOnly
    /\ wiz.pc = "show"
    /\ ~wiz.openPickInView
    /\ wiz.interactions > 0
    /\ \E break \in BOOLEAN :
         LET w == [UserActs(wiz) EXCEPT !.counter = @ - 1, !.pc = "loop"]
         IN wiz' = IF break THEN endSteps(w) ELSE w
    /\ UNCHANGED searchHist

\* The wizard is discarded and the command can be run again.
WizardExits ==
    /\ SearchOnly
    /\ wiz.pc = "returned"
    /\ wiz.interactions > 0
    /\ wiz' = [IdleWizard EXCEPT !.interactions = wiz.interactions - 1]
    /\ UNCHANGED searchHist

SearchNext ==
    \/ ExecuteSearch
    \/ LoopHead
    \/ PickRepository
    \/ RepositoryBack
    \/ OnDidChangeValue
    \/ OnDidClickButton
    \/ AcceptOperator
    \/ AcceptSearchFor
    \/ OperatorBack
    \/ RunSearch
    \/ PickCommit
    \/ CommitBack
    \/ ShowInSideBar
    \/ LoadMore
    \/ ShowDetailsView
    \/ ShowStepsReturn
    \/ WizardExits

SearchInit ==
    /\ wiz = [IdleWizard EXCEPT !.interactions = MaxInteractions]
    /\ searchHist = NoSearches

SearchIdle ==
    /\ wiz = IdleWizard
    /\ searchHist = NoSearches

\* ================================================================
\* WorkspacesWebview.onFocusChanged
\* ================================================================
\* onFocusChanged(focused): a focus gain sets the context key from a timer,
\* a focus loss sets it at once.
OnFocusChanged ==
    /\ FocusOnly
    /\ Len(focusEvents) < MaxFocusEvents
    /\ \E focused \in BOOLEAN :
         /\ focusEvents' = Append(focusEvents, focused)
         /\ IF focused
            THEN /\ focusTimers' = focusTimers + 1
                 /\ UNCHANGED workspacesFocused
            ELSE /\ workspacesFocused' = Some(focused)
                 /\ UNCHANGED focusTimers

\* The callback of setTimeout(..., 0) runs: setContext(WorkspacesFocused, focused)
\* with the value of the event that set the timer, which is true.
FocusTimerFires ==
    /\ FocusOnly
    /\ focusTimers > 0
    /\ focusTimers' = focusTimers - 1
    /\ workspacesFocused' = Some(TRUE)
    /\ UNCHANGED focusEvents

FocusNext ==
    \/ OnFocusChanged
    \/ FocusTimerFires

\* The context key is not set before the first focus change.
FocusInit ==
    /\ workspacesFocused = Undefined
    /\ focusTimers = 0
    /\ focusEvents = <<>>

\* ================================================================
\* Specifications
\* ================================================================
Init == WsInit /\ FocusInit /\ GenIdle /\ GraphIdle /\ SearchIdle
Next == WsNext
Spec == Init /\ [][Next]_vars

SortInit == WsSortInit /\ FocusInit /\ GenIdle /\ GraphIdle /\ SearchIdle
SpecSort == SortInit /\ [][Next]_vars

ListsInit == WsListsInit /\ FocusInit /\ GenIdle /\ GraphIdle /\ SearchIdle
SpecLists == ListsInit /\ [][Next]_vars

\* A workspaces webview that is never asked for its state.
WsIdle ==
    /\ WsStart
    /\ openRepositories = <<>>
    /\ prPool = {}
    /\ issuePool = {}
    /\ budget = 0

GenerateInit == GenInit /\ WsIdle /\ FocusInit /\ GraphIdle /\ SearchIdle
GenerateNext == GenNext
SpecGenerate == GenerateInit /\ [][GenerateNext]_vars

GraphAppInit == GraphInit /\ WsIdle /\ FocusInit /\ GenIdle /\ SearchIdle
GraphAppNext == GraphNext
SpecGraph == GraphAppInit /\ [][GraphAppNext]_vars

SearchCommandInit == SearchInit /\ WsIdle /\ FocusInit /\ GenIdle /\ GraphIdle
SearchCommandNext == SearchNext
SpecSearch == SearchCommandInit /\ [][SearchCommandNext]_vars

FocusChangeInit == FocusInit /\ WsIdle /\ GenIdle /\ GraphIdle /\ SearchIdle
FocusChangeNext == FocusNext
SpecFocus == FocusChangeInit /\ [][FocusChangeNext]_vars

\* ================================================================
\* Properties of WorkspacesWebview
\* ================================================================
Range(s) == {s[i] : i \in DOMAIN s}

\* The score as the claim words it: a role part plus a review part.
ClaimScore(pr) ==
    (IF "author" \in pr.reasons THEN 1000
     ELSE IF "assignee" \in pr.reasons THEN 900
     ELSE IF "reviewer" \in pr.reasons THEN 800
     ELSE IF "mentioned" \in pr.reasons THEN 700
     ELSE 0)
    + (CASE pr.reviewDecision = "Approved" ->
              (CASE pr.mergeableState = "Mergeable" -> 100
                 [] pr.mergeableState = "Conflicting" -> 90
                 [] OTHER -> 80)
         [] pr.reviewDecision = "ChangesRequested" -> 70
         [] OTHER -> 0)

\* A getState call that has just populated the pull-request list.
JustPopulatedPrs(c) == calls[c].populatedPr /\ calls[c].pc = "getMyIssues"

\* C1: after getMyPullRequests populates the list, the list returned (and
\* cached) is a permutation of the fetched pull requests that have a reason,
\* ordered by score, highest first, and among equal scores by date, oldest
\* first.
C1_SortedByScoreThenDate ==
    \A c \in CallIds :
        JustPopulatedPrs(c) =>
            LET l == calls[c].prs
                kept == {i \in DOMAIN calls[c].fetched : calls[c].fetched[i].reasons # {}}
            IN /\ l = pullRequests
               /\ Len(l) = Cardinality(kept)
               /\ \A x \in Range(l) \cup {calls[c].fetched[i] : i \in kept} :
                      Cardinality({i \in DOMAIN l : l[i] = x})
                          = Cardinality({i \in kept : calls[c].fetched[i] = x})
               /\ \A i \in 1..(Len(l) - 1) :
                      \/ ClaimScore(l[i]) > ClaimScore(l[i + 1])
                      \/ /\ ClaimScore(l[i]) = ClaimScore(l[i + 1])
                         /\ l[i].date <= l[i + 1].date

\* C1 witness: a population that had to reorder two pull requests of equal
\* score and different dates.
C1_Witness ==
    \E c \in CallIds :
        /\ JustPopulatedPrs(c)
        /\ Len(calls[c].prs) = 2
        /\ Len(calls[c].fetched) = 2
        /\ ClaimScore(calls[c].prs[1]) = ClaimScore(calls[c].prs[2])
        /\ calls[c].prs[1].date < calls[c].prs[2].date
        /\ calls[c].fetched[1] = calls[c].prs[2]

FetchPcs == {"prFetch", "issFetch"}

\* C2 (as claimed): in a run of non-overlapping getState calls with no refresh
\* and no failure, a call made after one that resolved never queries a
\* provider for pull requests or issues.
C2_FetchedByFirstCallOnly ==
    (~overlapEver /\ ~refreshedEver /\ ~threwEver) =>
        \A c \in CallIds : calls[c].laterCall => calls[c].pc \notin FetchPcs

\* C3 (as claimed): a getState made by the refresh command (no call overlaps,
\* no remote call fails) populates both lists again instead of returning the
\* cached ones.
C3_RefreshRefetches ==
    (~overlapEver /\ ~threwEver) =>
        \A c \in CallIds :
            (calls[c].viaRefresh /\ calls[c].pc = "resolved") =>
                (calls[c].populatedPr /\ calls[c].populatedIss)

\* C4 (as claimed): when the second of two getState calls starts while the
\* first is suspended in the pull-request population, every provider is still
\* queried for pull requests at most once and both calls return the same list.
C4_OverlapQueriesOnce ==
    (budget = MaxStarts - 2 /\ ~threwEver /\ \E c \in CallIds : calls[c].raceStart) =>
        /\ \A p \in Providers : prQueries[p] <= 1
        /\ \A c, d \in CallIds :
              (calls[c].pc = "resolved" /\ calls[d].pc = "resolved") =>
                  calls[c].prs = calls[d].prs

\* C8 (as claimed): a remote call that throws while the state is built does
\* not reject getState / includeBootstrap.
C8_FailureNotPropagated ==
    \A c \in CallIds : calls[c].pc # "rejected"

\* ================================================================
\* Properties of GenerateCommitMessageCommand
\* ================================================================
StepOrder == <<"key", "diff", "post", "write">>
FailedOutcomes == {"diffThrew", "fetchThrew", "notOk", "bodyUnusable"}

\* C5: in every run the steps happen in the order key obtained, staged diff
\* fetched, POST sent, input box written; the POST is sent only with a
\* non-empty key, a repository, its SCM repository and a diff that is not null;
\* the box is written only after an ok response; a dismissed prompt ends the
\* run with no diff fetched, no POST sent and no key stored.
C5_StepsInOrder ==
    LET ev == SelectSeq(genHist.events, LAMBDA e : e # "store") IN
    /\ \E n \in 0..Len(StepOrder) : ev = SubSeq(StepOrder, 1, n)
    /\ "post" \in Range(genHist.events) =>
          /\ gen.openaiApiKey \in Keys
          /\ genHist.repoFound /\ genHist.scmFound
          /\ ~gen.diff.isNull
          /\ Len(genHist.posted) = 1 /\ genHist.posted[1].key = gen.openaiApiKey
    /\ "write" \in Range(genHist.events) => genHist.rspOk
    /\ genHist.outcome = "dismissed" =>
          /\ genHist.events = <<>>
          /\ genHist.posted = <<>>
          /\ ~genHist.resetSinceStart => secret = genHist.secretAtStart

\* C5 witness: a run that prompted for the key, stored it and wrote the box.
C5_Witness ==
    /\ genHist.outcome = "written"
    /\ genHist.events = <<"key", "store", "diff", "post", "write">>

\* C6: when the command fails (getDiff throws, fetch throws, the response is
\* not ok, or the body cannot be used) an error notification is shown and the
\* command has not written the input box: it holds what it held before the
\* run, or what the user typed since.
C6_FailureKeepsInputBox ==
    genHist.outcome \in FailedOutcomes =>
        /\ genHist.errors >= 1
        /\ "write" \notin Range(genHist.events)
        /\ inputBox = genHist.boxExpected

\* C6 witness: a failed run, after the response was ok, with text in the box.
C6_Witness ==
    /\ genHist.outcome = "bodyUnusable"
    /\ inputBox # <<>>

\* C7 (as claimed): after a failed run the secret store holds what it held
\* before the run (no key reset since the run started).
C7_SecretStoreRestored ==
    (genHist.outcome \in FailedOutcomes /\ ~genHist.resetSinceStart) =>
        secret = genHist.secretAtStart

\* C7 (amended): a failed run leaves the secret store as the run's key step
\* left it: unchanged when the stored key was used, and holding the key the
\* user entered when the run prompted for one (no key reset since the run started).
C7_EnteredKeyStaysStored ==
    (genHist.outcome \in FailedOutcomes /\ ~genHist.resetSinceStart) =>
        secret = (IF genHist.prompted THEN gen.openaiApiKey ELSE genHist.secretAtStart)

\* C7 witness: a failed run that prompted and left a new key in the store.
C7_Witness ==
    /\ genHist.outcome \in FailedOutcomes
    /\ ~genHist.resetSinceStart
    /\ genHist.prompted
    /\ genHist.secretAtStart = Null
    /\ secret \in Keys

\* ================================================================
\* Claims about the graph webview's message dispatch
\* ================================================================
StateFields == HostFields \cup {"mixedColumnColors"}

\* The fields of the state, other than those in fs, are as before the last event.
KeptExcept(fs) ==
    \A f \in StateFields \ fs : state[f] = graphHist.before[f]

\* C10 (as claimed): DidChangeCommits changes only commits and log, which
\* become the notification's values; DidChangeGraphConfiguration changes only
\* config and mixedColumnColors; on DidChange the fields of params.state
\* overwrite the same fields and every other field is kept; any other method
\* changes nothing.
C10_DispatchFrame ==
    LET e == graphHist.event IN
    /\ e.method = "DidChangeCommits" =>
           /\ state.commits = e.params.commits
           /\ state.log = e.params.log
           /\ KeptExcept({"commits", "log"})
    /\ e.method = "DidChangeGraphConfiguration" =>
           /\ state.config = e.params.config
           /\ KeptExcept({"config", "mixedColumnColors"})
    /\ e.method = "DidChange" =>
           /\ \A f \in DOMAIN e.params.state : state[f] = e.params.state[f]
           /\ KeptExcept(DOMAIN e.params.state)
    /\ e.method = "DidDismissPreview" => state = graphHist.before

\* C10 (amended): as claimed for commits, log, config and the fields carried
\* by params.state, and for every field but mixedColumnColors being kept;
\* mixedColumnColors is recomputed from the resulting config on DidChange and
\* DidChangeGraphConfiguration, and on DidChangeCommits it is kept when it was
\* defined and computed from the config when it was undefined.
C10_DispatchFrameWithColors ==
    LET e == graphHist.event
        colors == Some(getGraphColors(state.config, theme))
    IN
    /\ e.method = "DidChangeCommits" =>
           /\ state.commits = e.params.commits
           /\ state.log = e.params.log
           /\ KeptExcept({"commits", "log", "mixedColumnColors"})
           /\ state.mixedColumnColors =
                  (IF graphHist.before.mixedColumnColors = Undefined
                   THEN colors ELSE graphHist.before.mixedColumnColors)
    /\ e.method = "DidChangeGraphConfiguration" =>
           /\ state.config = e.params.config
           /\ KeptExcept({"config", "mixedColumnColors"})
           /\ state.mixedColumnColors = colors
    /\ e.method = "DidChange" =>
           /\ \A f \in DOMAIN e.params.state : state[f] = e.params.state[f]
           /\ KeptExcept(DOMAIN e.params.state \cup {"mixedColumnColors"})
           /\ state.mixedColumnColors = colors
    /\ e.method = "DidDismissPreview" => state = graphHist.before

\* C10 witness: DidChangeCommits replaced the commits and the log of a state
\* that already had its colours and a configuration.
C10_Witness ==
    /\ graphHist.event.method = "DidChangeCommits"
    /\ graphHist.before.mixedColumnColors # Undefined
    /\ graphHist.before.config # Undefined
    /\ state.commits # graphHist.before.commits
    /\ state.log # graphHist.before.log

\* ================================================================
\* Claims about the search wizard
\* ================================================================
\* The searches handed to repo.searchForCommits and to the side bar, each with
\* the text that was accepted in the operator step (if the step was shown),
\* the pattern of the initial arguments and the wizard's flags at the call.
HandedSearches ==
    {h[1] : h \in {searchHist.lastCall, searchHist.lastSideBar} \ {Undefined}}

FlagsAsInState(h) ==
    <<h.search.matchAll, h.search.matchCase, h.search.matchRegex>> = h.flags

\* C9 (as claimed): the pattern of every search handed to the VCS query or to
\* the side bar is the text the user entered in the operator step (the
\* initial argument when the step was not shown), and its three flags equal
\* the wizard state's flags at the moment of the call.
C9_PatternAsEntered ==
    \A h \in HandedSearches :
        /\ h.search.pattern = OrElse(h.entered, OrElse(h.argsPattern, <<>>))
        /\ FlagsAsInState(h)

\* C9 (amended): the pattern is the text the user accepted in the operator
\* step with its leading and trailing whitespace removed (the initial
\* argument, as given, when the step was not shown), and the three flags
\* equal the wizard state's flags at the moment of the call.
C9_PatternTrimmed ==
    \A h \in HandedSearches :
        /\ h.search.pattern =
               (IF h.entered # Undefined THEN Trim(h.entered[1])
                ELSE OrElse(h.argsPattern, <<>>))
        /\ FlagsAsInState(h)

\* C9 witness: a search was handed to the VCS query for a text entered with
\* leading whitespace, after a toggle button was clicked.
C9_Witness ==
    /\ searchHist.lastCall # Undefined
    /\ searchHist.lastCall[1].entered = Some(<<" ", "a">>)
    /\ searchHist.toggled

\* ================================================================
\* Claims about the graph webview's renders
\* ================================================================
\* A step that delivers a message or a theme update.
EventDelivered == graphEvents' = graphEvents - 1

\* The event of the step is one that triggers a render.
RenderingEvent ==
    graphHist'.event.method \in
        {"DidChange", "DidChangeCommits", "DidChangeGraphConfiguration", "ThemeUpdated"}

\* The invocations, during the step, of the callback of subscriber s.
RendersOf(s) ==
    {i \in DOMAIN graphHist'.renders : graphHist'.renders[i].subscriber = s}

\* C11 (as claimed): every subscriber that has registered and has not called
\* its unsubscribe function is invoked exactly once per handled notification
\* and per theme update, with the state as updated by the event; when no
\* subscriber is registered no callback is invoked.
C11_EverySubscriberRendered ==
    [][(EventDelivered /\ RenderingEvent) =>
          /\ \A s \in subscriptions :
                 /\ Cardinality(RendersOf(s)) = 1
                 /\ \A i \in RendersOf(s) : graphHist'.renders[i].state = state'
          /\ subscriptions = {} => graphHist'.renders = <<>>]_vars

\* C11 (amended): the app holds one callback, the one handed to the latest
\* registerEvents call, and every returned unsubscribe function empties that
\* slot; each handled notification and each theme update invokes the callback
\* held at that moment exactly once, with the state as updated by the event,
\* and invokes nothing when the slot is empty; other messages render nothing.
C11_CurrentCallbackRendered ==
    [][/\ (EventDelivered /\ RenderingEvent) =>
             graphHist'.renders =
                 (IF callback = Null THEN <<>>
                  ELSE <<[subscriber |-> callback, state |-> state']>>)
       /\ (EventDelivered /\ ~RenderingEvent) => graphHist'.renders = <<>>
       /\ (\E s \in Subscribers : subscriptions' = subscriptions \cup {s}
                                     /\ s \notin subscriptions) =>
             callback' \in subscriptions' \ subscriptions
       /\ (subscriptions' # subscriptions /\ subscriptions' \subseteq subscriptions) =>
             callback' = Null]_vars

\* C11 witness: an event was rendered to the one registered subscriber with
\* the state it produced, which differs from the state before.
C11_Witness ==
    /\ graphHist.event.method = "DidChange"
    /\ subscriptions = {"s1"}
    /\ graphHist.renders = <<[subscriber |-> "s1", state |-> state]>>
    /\ state.commits # graphHist.before.commits
\* ================================================================
\* Claims about the search wizard's back navigation
\* ================================================================
\* The step in which the user goes back from the operator step.
WentBackFromOperator == wiz.pc = "operatorStep" /\ wiz'.pc = "loop"

JustPopulatedIssues(c) == calls[c].populatedIss /\ calls[c].pc = "resolved"

\* The number of times x occurs in the list l.
Occurrences(l, x) == Cardinality({i \in DOMAIN l : l[i] = x})

\* The list l holds exactly the items of the list fetched that have a reason.
HoldsItemsWithReason(l, fetched) ==
    /\ \A i \in DOMAIN l : l[i].reasons # {}
    /\ \A x \in Range(l) \cup Range(fetched) :
           Occurrences(l, x) = IF x.reasons # {} THEN Occurrences(fetched, x) ELSE 0

\* C13: a populated pull-request list and a populated issue list hold exactly
\* the items the providers returned that have at least one reason; a provider
\* that answers null adds nothing and the providers after it are still read.
C13_ListsFilteredByReasons ==
    /\ \A c \in CallIds :
          /\ JustPopulatedPrs(c) => HoldsItemsWithReason(calls[c].prs, calls[c].fetched)
          /\ JustPopulatedIssues(c) => HoldsItemsWithReason(calls[c].iss, calls[c].fetched)
          /\ calls[c].pc \in FetchPcs =>
                HoldsItemsWithReason(calls[c].all, calls[c].fetched)
    /\ \A i \in DOMAIN pullRequests : pullRequests[i].reasons # {}
    /\ \A i \in DOMAIN issues : issues[i].reasons # {}

\* The first provider answered null, the second returned an item with a
\* reason and one without, and the issue list holds the one with a reason.
C13_Witness ==
    \E c \in CallIds :
        /\ JustPopulatedIssues(c)
        /\ calls[c].nullFrom = {1}
        /\ Len(calls[c].fetched) = 2
        /\ Len(calls[c].iss) = 1
\* ================================================================
\* Claims about the OpenAI key, the prompt and the input box
\* ================================================================
\* The step in which getSecret resolves, and the step that sends the request.
SecretRead == gen.pc = "getSecret" /\ gen'.pc # "getSecret"
RequestSent == genHist.posted = <<>> /\ genHist'.posted # <<>>

\* C14: a key entered at the prompt is stored and stays stored until the
\* reset command deletes it; a run that reads the secret while an entered key
\* is stored does not prompt and uses that key; a run that reads the secret
\* after a reset prompts, and every request carries the key the run holds:
\* the stored one, or the one entered at the prompt of this run; a run that
\* started after the reset sends a request only after its prompt.
C14_KeyLifeCycle ==
    [][/\ (genHist.keyOrigin = "entered") => secret # Null
       /\ (genHist.keyOrigin = "reset") => secret = Null
       /\ (SecretRead /\ genHist.keyOrigin = "entered") =>
             /\ gen'.pc = "repository"
             /\ gen'.openaiApiKey = secret
             /\ ~genHist'.prompted
       /\ (SecretRead /\ genHist.keyOrigin = "reset") =>
             /\ gen'.pc = "prompt"
             /\ genHist'.prompted
       /\ (gen.pc = "prompt" /\ gen'.pc = "repository") =>
             /\ gen'.openaiApiKey = secret'
             /\ genHist'.keyOrigin = "entered"
       /\ (gen.pc = "prompt" /\ gen'.pc = "done") => genHist'.posted = <<>>
       /\ RequestSent =>
             /\ genHist'.posted[1].key = gen.openaiApiKey
             /\ gen.openaiApiKey # Null
             /\ (genHist.keyOrigin = "reset" /\ ~genHist.resetSinceStart) =>
                    genHist.prompted
       /\ (secret' # secret) =>
             \/ secret' = Null /\ genHist'.keyOrigin = "reset"
             \/ gen.pc = "prompt" /\ genHist'.keyOrigin = "entered"]_vars

\* The second run used, without a prompt, the key entered in the first run.
C14_Witness ==
    /\ genRuns = 0
    /\ genHist.keyOrigin = "entered"
    /\ genHist.secretAtStart # Null
    /\ ~genHist.prompted
    /\ ~genHist.resetSinceStart
    /\ genHist.posted # <<>>
    /\ genHist.posted[1].key = secret
\* The smaller of two numbers.
Min(a, b) == IF a <= b THEN a ELSE b

\* The diff text of every request is the first min(length, 8000) characters
\* of the staged diff.
CodeIsCutDiff ==
    genHist.posted # <<>> => genHist.posted[1].code = Min(gen.diff.length, DiffLimit)

\* C15, as claimed: the request carries the first min(length, 8000)
\* characters of the diff, and a run shows the truncation warning exactly
\* when it sent a request with a diff longer than 8000 characters.
C15_WarnedWheneverSentTruncated ==
    /\ CodeIsCutDiff
    /\ gen.pc = "done" =>
          /\ genHist.warnings \in {0, 1}
          /\ genHist.warnings = 1 <=>
                (genHist.posted # <<>> /\ gen.diff.length > DiffLimit)

\* C15, amended: the request carries the first min(length, 8000) characters
\* of the diff, and a run shows the truncation warning exactly when the diff
\* is longer than 8000 characters and the request was answered (with an ok
\* response whose completion was written, or with a response that is not
\* ok); a run whose request or whose reading of the response threw shows no
\* warning.
C15_WarnedWhenAnsweredTruncated ==
    /\ CodeIsCutDiff
    /\ genHist.warnings \in {0, 1}
    /\ gen.pc # "done" => genHist.warnings = 0
    /\ gen.pc = "done" =>
          (genHist.warnings = 1 <=>
              (genHist.outcome \in {"written", "notOk"} /\ gen.diff.length > DiffLimit))

\* A run that sent the first 8000 characters of a longer diff, wrote the
\* completion and showed the warning.
C15_Witness ==
    /\ gen.pc = "done"
    /\ genHist.outcome = "written"
    /\ gen.diff.length = DiffLimit + 1
    /\ genHist.posted[1].code = DiffLimit
    /\ genHist.warnings = 1
\* Every two adjacent issues of the list l: the earlier one was updated last.
NewestFirst(l) ==
    \A i \in 1..(Len(l) - 1) : l[i].updatedDate >= l[i + 1].updatedDate

\* C16: the issue list a population returns and the list the webview keeps
\* are ordered by updatedDate, most recently updated first.
C16_IssuesNewestFirst ==
    /\ NewestFirst(issues)
    /\ \A c \in CallIds : JustPopulatedIssues(c) => NewestFirst(calls[c].iss)

\* A population that fetched an older issue before a newer one and lists the
\* newer one first.
C16_Witness ==
    \E c \in CallIds :
        /\ JustPopulatedIssues(c)
        /\ Len(calls[c].fetched) = 2
        /\ calls[c].fetched[1].updatedDate < calls[c].fetched[2].updatedDate
        /\ calls[c].iss = <<calls[c].fetched[2], calls[c].fetched[1]>>
        /\ issues = calls[c].iss
\* The step in which the completion is written to the input box.
CompletionWritten == gen.pc = "json" /\ genHist'.outcome = "written"

\* C17: on an ok response the input box becomes the value it has at the
\* moment of writing (what the user typed last, also while the request was
\* in flight), an empty line and the trimmed completion when that value is
\* not empty, and the trimmed completion alone when it is empty.
C17_SplicedAfterBoxValue ==
    [][CompletionWritten =>
          LET trimmed == Trim(genHist'.message) IN
          /\ inputBox = genHist.boxExpected
          /\ genHist'.boxAtWrite = inputBox
          /\ inputBox # <<>> => inputBox' = inputBox \o <<"\n", "\n">> \o trimmed
          /\ inputBox = <<>> => inputBox' = trimmed]_vars

\* The user typed into the box while the request was in flight, and the
\* completion, which had white space around it, was written after that text.
C17_Witness ==
    /\ gen.pc = "done"
    /\ genHist.outcome = "written"
    /\ genHist.boxAtPost = <<>>
    /\ genHist.boxAtWrite = <<"u">>
    /\ genHist.message = <<" ", "m">>
    /\ inputBox = <<"u", "\n", "\n", "m">>
\* ================================================================
\* Claims about the search results of the wizard
\* ================================================================
\* C18, as claimed: the results shown in the commit step and the results
\* handed to the side bar come from a searchForCommits call on the selected
\* repository with the current pattern and flags.
C18_ResultsOfSelectedRepository ==
    /\ wiz.pc = "commitStep" =>
          /\ wiz.resultsPromise[1].repo = wiz.repo[1]
          /\ wiz.resultsPromise[1].search = SearchOf(wiz)
    /\ searchHist.lastSideBar # Undefined =>
          /\ searchHist.lastSideBar[1].results.repo = searchHist.lastSideBar[1].repo
          /\ searchHist.lastSideBar[1].results.search = searchHist.lastSideBar[1].search
\* ================================================================
\* Claims about the focus context key
\* ================================================================
\* C19, as claimed: once every pending timer has fired, the context key
\* equals the focused value of the last focus change delivered.
C19_KeyFollowsLastFocusChange ==
    (focusTimers = 0 /\ focusEvents # <<>>) =>
        workspacesFocused = Some(focusEvents[Len(focusEvents)])
\* ================================================================
\* Claims about the role of the user in the pull-request order
\* ================================================================
\* The highest role among the reasons of a pull request: author, then
\* assignee, then reviewer, then mentioned.
RoleRank(pr) ==
    IF "author" \in pr.reasons THEN 4
    ELSE IF "assignee" \in pr.reasons THEN 3
    ELSE IF "reviewer" \in pr.reasons THEN 2
    ELSE IF "mentioned" \in pr.reasons THEN 1
    ELSE 0

\* C20, as claimed: in a populated pull-request list no pull request is
\* listed after one of a lower role, whatever the review decision, the
\* mergeable state and the date of the two.
C20_RoleDominatesOrder ==
    \A c \in CallIds :
        JustPopulatedPrs(c) =>
            \A i, j \in DOMAIN calls[c].prs :
                i < j => RoleRank(calls[c].prs[i]) >= RoleRank(calls[c].prs[j])
\* ================================================================
\* Claims about the colours of the graph state
\* ================================================================
\* The events that set the state: the handled notifications and the theme update.
StateSettingMethods ==
    {"DidChange", "DidChangeCommits", "DidChangeGraphConfiguration", "ThemeUpdated"}

\* C21: once a handled notification or a theme update has been delivered,
\* mixedColumnColors is defined, stays defined, and is getGraphColors of the
\* state's config under the current theme, also after an update of the
\* commits alone.
C21_ColorsOfConfigAndTheme ==
    /\ state.mixedColumnColors # Undefined =>
          state.mixedColumnColors = Some(getGraphColors(state.config, theme))
    /\ graphHist.event.method \in StateSettingMethods =>
          state.mixedColumnColors # Undefined
    /\ (graphHist.event.method # "none"
        /\ graphHist.before.mixedColumnColors # Undefined) =>
          state.mixedColumnColors # Undefined

\* The theme changed, then the commits alone were updated: the colours kept
\* by the second event are those of the configuration under the new theme.
C21_Witness ==
    /\ graphHist.event.method = "DidChangeCommits"
    /\ graphHist.before.mixedColumnColors # Undefined
    /\ theme = "#ffffff"
    /\ state.commits # graphHist.before.commits
    /\ state.mixedColumnColors = graphHist.before.mixedColumnColors
    /\ state.mixedColumnColors = Some(getGraphColors(state.config, "#ffffff"))
\* ================================================================
\* Claims about a population that fails
\* ================================================================
\* The step in which a remote call of call c rejects during the population
\* of the pull-request list, or of the issue list.
ThrewInPullRequests(c) ==
    calls[c].pc \in {"prRichRemote", "prFetch"} /\ calls'[c].pc = "rejected"
ThrewInIssues(c) ==
    calls[c].pc \in {"issRichRemote", "issFetch"} /\ calls'[c].pc = "rejected"

\* A getState call starts in this step.
Started(c) == ~InFlight(c) /\ calls'[c].pc \notin {"idle", "resolved", "rejected"}

\* C22, as claimed: a remote call that throws during a population leaves the
\* list that was being populated as it was, which is empty, and a getState
\* that starts while the pull-request list is empty asks the first
\* repository for its rich remote again.
C22_FailedPopulationLeavesEmpty ==
    [][\A c \in CallIds :
         /\ ThrewInPullRequests(c) => (pullRequests' = pullRequests /\ pullRequests' = <<>>)
         /\ ThrewInIssues(c) => (issues' = issues /\ issues' = <<>>)
         /\ (Started(c) /\ pullRequests = <<>>) =>
               (calls'[c].pc = "prRichRemote" /\ calls'[c].repoIdx = 1
                /\ calls'[c].all = <<>>)]_vars
\* ================================================================
\* Claims about getRichRepos
\* ================================================================
\* The open repositories that have a rich remote which no repository opened
\* before them has.
FirstOfRemote ==
    {i \in DOMAIN openRepositories :
        /\ openRepositories[i] # Null
        /\ \A j \in 1..(i - 1) : openRepositories[j] # openRepositories[i]}

\* The rich remotes of the open repositories.
RichRemotes == Range(openRepositories) \ {Null}

\* The list repos is made of the repositories of FirstOfRemote, in the order
\* of the open repositories, each with its rich remote.
OneEntryPerRemote(repos) ==
    /\ Len(repos) = Cardinality(FirstOfRemote)
    /\ \A k \in DOMAIN repos :
          /\ repos[k].repo \in FirstOfRemote
          /\ repos[k].provider = openRepositories[repos[k].repo]
    /\ \A k \in 1..(Len(repos) - 1) : repos[k].repo < repos[k + 1].repo

\* C23: the list getRichRepos returns has one entry per distinct rich remote,
\* its first repository; while the providers are read no provider has been
\* queried twice, and when the population of the pull-request list is over
\* every provider has been queried exactly once and the list holds every
\* returned pull request that has a reason once.
C23_OneQueryPerRichRemote ==
    \A c \in CallIds :
        /\ calls[c].pc \in FetchPcs => OneEntryPerRemote(calls[c].richRepos)
        /\ calls[c].pc = "prFetch" =>
              \A p \in Providers :
                  prQueries[p] = IF \E k \in 1..calls[c].provIdx :
                                        calls[c].richRepos[k].provider = p
                                 THEN 1 ELSE 0
        /\ JustPopulatedPrs(c) =>
              /\ \A p \in Providers : prQueries[p] = IF p \in RichRemotes THEN 1 ELSE 0
              /\ HoldsItemsWithReason(calls[c].prs, calls[c].fetched)

\* Four open repositories, one without a rich remote and two sharing theirs:
\* the population queried the two providers once each and lists the pull
\* request each of them returned.
C23_Witness ==
    \E c \in CallIds :
        /\ JustPopulatedPrs(c)
        /\ openRepositories = <<"p1", Null, "p1", "p2">>
        /\ prQueries = [p \in Providers |-> 1]
        /\ calls[c].nullFrom = {}
        /\ Len(calls[c].prs) = 2
\* ================================================================
\* Claims about showResultsInSideBar
\* ================================================================
\* The search the side bar received last is the wizard's current search, of
\* its repository, with its current results promise.
SideBarHoldsCurrentSearch(w, hist) ==
    /\ hist.lastSideBar # Undefined
    /\ w.search # Undefined /\ w.resultsPromise # Undefined
    /\ hist.lastSideBar[1].repo = w.repo[1]
    /\ hist.lastSideBar[1].search = w.search[1]
    /\ hist.lastSideBar[1].search = SearchOf(w)
    /\ hist.lastSideBar[1].results = w.resultsPromise[1]

\* C24: with showResultsInSideBar set the commit step is never shown, and
\* the step taken once the repository and the pattern are resolved hands the
\* side bar one search, the current one with the current results promise,
\* and ends the loop, so that a run hands over at most one search; with
\* showResultsInSideBar not set the side bar receives a search only by the
\* show-in-side-bar command or button of the commit step.
C24_SideBarInsteadOfCommitStep ==
    /\ [](wiz.showResultsInSideBar =>
            /\ wiz.pc \notin {"commitStep", "show"}
            /\ searchHist.shown # <<"commit">>
            /\ searchHist.sideBar <= 1
            /\ searchHist.sideBar = 1 =>
                  (wiz.pc = "returned" /\ SideBarHoldsCurrentSearch(wiz, searchHist)))
    /\ [][/\ (wiz.showResultsInSideBar /\ wiz.pc = "search") =>
                /\ wiz'.pc = "returned"
                /\ searchHist'.sideBar = searchHist.sideBar + 1
                /\ SideBarHoldsCurrentSearch(wiz', searchHist')
          /\ (wiz.showResultsInSideBar /\ wiz.pc # "search") =>
                searchHist'.sideBar = searchHist.sideBar
          /\ (~wiz.showResultsInSideBar /\ searchHist'.sideBar > searchHist.sideBar) =>
                /\ wiz.pc = "commitStep" /\ wiz'.pc = "commitStep"
                /\ searchHist.shown = <<"commit">>
                /\ searchHist'.sideBar = searchHist.sideBar + 1
                /\ SideBarHoldsCurrentSearch(wiz', searchHist')]_vars

\* A run with showResultsInSideBar set whose pattern was entered in the
\* operator step: the search ran once, went to the side bar once, and the
\* loop ended with the operator step as the last step shown.
C24_Witness ==
    /\ wiz.pc = "returned"
    /\ wiz.showResultsInSideBar
    /\ searchHist.entered # Undefined
    /\ searchHist.shown = <<"operator">>
    /\ searchHist.calls = 1
    /\ searchHist.sideBar = 1
    /\ SideBarHoldsCurrentSearch(wiz, searchHist)
====
